---------------------------- MODULE Spec2Model ----------------------------
(***************************************************************************)
(* Model of the max-prefix reconciliation scripts oldScript.py and         *)
(* checkMaxPrefixes.py: extraction of the configured limits from the       *)
(* router's BGP stanza, the PeeringDB lookups, AddHeadroom (in IEEE-754    *)
(* double arithmetic, as Python computes it), findMismatch and             *)
(* generateSetCommands.                                                    *)
(***************************************************************************)
EXTENDS Integers, Sequences, FiniteSets, TLC

(***************************************************************************)
(* Arbitrary-precision naturals.  Python's int is unbounded and a double   *)
(* carries a 53-bit significand; a natural is kept here as a sequence of   *)
(* limbs base 2^15, least significant first, without leading zero limbs     *)
(* (the empty sequence is 0).                                              *)
(***************************************************************************)
LimbBits == 15

Base == 32768

RECURSIVE Pow2(_)
Pow2(k) == IF k = 0 THEN 1 ELSE 2 * Pow2(k - 1)

RECURSIVE BigNorm(_)
BigNorm(a) ==
    IF a = <<>> THEN <<>>
    ELSE IF a[Len(a)] = 0 THEN BigNorm(SubSeq(a, 1, Len(a) - 1))
    ELSE a

RECURSIVE BigFromInt(_)
BigFromInt(n) == IF n = 0 THEN <<>> ELSE <<n % Base>> \o BigFromInt(n \div Base)

RECURSIVE BigToInt(_)
BigToInt(a) == IF a = <<>> THEN 0 ELSE a[1] + Base * BigToInt(Tail(a))

Limb(a, i) == IF i >= 1 /\ i <= Len(a) THEN a[i] ELSE 0

Max2(x, y) == IF x >= y THEN x ELSE y

RECURSIVE BigAddFrom(_, _, _, _)
BigAddFrom(a, b, i, carry) ==
    IF i > Max2(Len(a), Len(b))
    THEN (IF carry = 0 THEN <<>> ELSE <<carry>>)
    ELSE LET s == Limb(a, i) + Limb(b, i) + carry
         IN  <<s % Base>> \o BigAddFrom(a, b, i + 1, s \div Base)

BigAdd(a, b) == BigNorm(BigAddFrom(a, b, 1, 0))

\* a - b for a >= b
RECURSIVE BigSubFrom(_, _, _, _)
BigSubFrom(a, b, i, borrow) ==
    IF i > Len(a) THEN <<>>
    ELSE LET d == Limb(a, i) - Limb(b, i) - borrow
         IN  IF d < 0 THEN <<d + Base>> \o BigSubFrom(a, b, i + 1, 1)
             ELSE <<d>> \o BigSubFrom(a, b, i + 1, 0)

BigSub(a, b) == BigNorm(BigSubFrom(a, b, 1, 0))

\* -1, 0, 1 as a < b, a = b, a > b
RECURSIVE BigCmpFrom(_, _, _)
BigCmpFrom(a, b, i) ==
    IF i = 0 THEN 0
    ELSE IF Limb(a, i) < Limb(b, i) THEN -1
    ELSE IF Limb(a, i) > Limb(b, i) THEN 1
    ELSE BigCmpFrom(a, b, i - 1)

BigCmp(a, b) == BigCmpFrom(a, b, Max2(Len(a), Len(b)))

\* a * s for a limb-sized s
RECURSIVE BigMulSmallFrom(_, _, _, _)
BigMulSmallFrom(a, s, i, carry) ==
    IF i > Len(a)
    THEN (IF carry = 0 THEN <<>> ELSE <<carry>>)
    ELSE LET p == a[i] * s + carry
         IN  <<p % Base>> \o BigMulSmallFrom(a, s, i + 1, p \div Base)

BigMulSmall(a, s) == BigNorm(BigMulSmallFrom(a, s, 1, 0))

RECURSIVE Zeros(_)
Zeros(k) == IF k = 0 THEN <<>> ELSE <<0>> \o Zeros(k - 1)

BigShiftLimbs(a, k) == IF a = <<>> THEN <<>> ELSE Zeros(k) \o a

RECURSIVE BigMulFrom(_, _, _)
BigMulFrom(a, b, i) ==
    IF i > Len(b) THEN <<>>
    ELSE BigAdd(BigShiftLimbs(BigMulSmall(a, b[i]), i - 1), BigMulFrom(a, b, i + 1))

BigMul(a, b) == BigMulFrom(a, b, 1)

\* a * 2^k
BigShiftLeft(a, k) ==
    BigShiftLimbs(BigMulSmall(a, Pow2(k % LimbBits)), k \div LimbBits)

\* <<quotient, remainder>> of a by a limb-sized d, most significant limb first
RECURSIVE BigDivSmallFrom(_, _, _, _)
BigDivSmallFrom(a, d, i, rem) ==
    IF i = 0 THEN <<<<>>, rem>>
    ELSE LET cur  == rem * Base + a[i]
             rest == BigDivSmallFrom(a, d, i - 1, cur % d)
         IN  <<rest[1] \o <<cur \div d>>, rest[2]>>

BigDivSmall(a, d) ==
    LET r == BigDivSmallFrom(a, d, Len(a), 0)
    IN  <<BigNorm(r[1]), r[2]>>

\* floor(a / 2^k)
BigShiftRight(a, k) ==
    LET whole == k \div LimbBits
        kept  == IF whole >= Len(a) THEN <<>> ELSE SubSeq(a, whole + 1, Len(a))
    IN  BigDivSmall(kept, Pow2(k % LimbBits))[1]

\* a mod 2^k
BigLowBits(a, k) == BigSub(a, BigShiftLeft(BigShiftRight(a, k), k))

RECURSIVE IntBitLen(_)
IntBitLen(n) == IF n = 0 THEN 0 ELSE 1 + IntBitLen(n \div 2)

BigBitLen(a) ==
    IF a = <<>> THEN 0 ELSE LimbBits * (Len(a) - 1) + IntBitLen(a[Len(a)])

BigIsOdd(a) == a # <<>> /\ a[1] % 2 = 1


(***************************************************************************)
(* IEEE-754 binary64, the float of Python.  A double is                     *)
(* (-1)^neg * man * 2^exp with man a natural below 2^53, kept with man odd  *)
(* (or zero) so that equal doubles are equal records.  Exponent overflow    *)
(* and subnormals do not arise for the magnitudes AddHeadroom handles.      *)
(***************************************************************************)
MantBits == 53

FloatZero == [neg |-> FALSE, man |-> <<>>, exp |-> 0]

RECURSIVE FloatNormal(_)
FloatNormal(x) ==
    IF x.man = <<>> THEN FloatZero
    ELSE IF BigIsOdd(x.man) THEN x
    ELSE FloatNormal([neg |-> x.neg, man |-> BigShiftRight(x.man, 1), exp |-> x.exp + 1])

\* the double nearest to (-1)^neg * n * 2^e, ties to even
RoundNearestEven(neg, n, e) ==
    LET bl == BigBitLen(n)
    IN  IF bl <= MantBits
        THEN FloatNormal([neg |-> neg, man |-> n, exp |-> e])
        ELSE LET k    == bl - MantBits
                 q    == BigShiftRight(n, k)
                 r    == BigLowBits(n, k)
                 half == BigShiftLeft(<<1>>, k - 1)
                 c    == BigCmp(r, half)
                 up   == c = 1 \/ (c = 0 /\ BigIsOdd(q))
             IN  FloatNormal([neg |-> neg,
                              man |-> IF up THEN BigAdd(q, <<1>>) ELSE q,
                              exp |-> e + k])

Abs(n) == IF n < 0 THEN -n ELSE n

\* float(n) for an int n: exact below 2^53
FloatFromInt(n) == RoundNearestEven(n < 0, BigFromInt(Abs(n)), 0)

GuardBits == 64

\* a / b for ints a and b > 0 (true division): the correctly rounded quotient.
\* The quotient of |a| * 2^64 by b has more than 54 bits, so one sticky bit
\* below it decides the rounding.
FloatDivInt(a, b) ==
    IF a = 0 THEN FloatZero
    ELSE LET qr     == BigDivSmall(BigShiftLeft(BigFromInt(Abs(a)), GuardBits), b)
             sticky == IF qr[2] = 0 THEN <<>> ELSE <<1>>
         IN  RoundNearestEven(a < 0, BigAdd(BigShiftLeft(qr[1], 1), sticky),
                              0 - GuardBits - 1)

FloatAdd(x, y) ==
    LET e  == IF x.exp <= y.exp THEN x.exp ELSE y.exp
        xm == BigShiftLeft(x.man, x.exp - e)
        ym == BigShiftLeft(y.man, y.exp - e)
    IN  IF x.neg = y.neg THEN RoundNearestEven(x.neg, BigAdd(xm, ym), e)
        ELSE IF BigCmp(xm, ym) >= 0 THEN RoundNearestEven(x.neg, BigSub(xm, ym), e)
        ELSE RoundNearestEven(y.neg, BigSub(ym, xm), e)

FloatMul(x, y) ==
    RoundNearestEven(x.neg # y.neg, BigMul(x.man, y.man), x.exp + y.exp)

\* math.ceil: the least int not below x
Ceil(x) ==
    IF x.exp >= 0
    THEN (IF x.neg THEN -1 ELSE 1) * BigToInt(BigShiftLeft(x.man, x.exp))
    ELSE LET q == BigToInt(BigShiftRight(x.man, 0 - x.exp))
             r == BigLowBits(x.man, 0 - x.exp)
         IN  IF x.neg THEN 0 - q
             ELSE IF r = <<>> THEN q ELSE q + 1

(***************************************************************************)
(* str() and int() between ints and decimal strings (sequences of          *)
(* one-character strings).                                                 *)
(***************************************************************************)
DigitChars == <<"0", "1", "2", "3", "4", "5", "6", "7", "8", "9">>

RECURSIVE StrNat(_)
StrNat(n) ==
    IF n < 10 THEN <<DigitChars[n + 1]>>
    ELSE StrNat(n \div 10) \o <<DigitChars[(n % 10) + 1]>>

Str(n) == IF n < 0 THEN <<"-">> \o StrNat(0 - n) ELSE StrNat(n)

DigitValue(c) == CHOOSE d \in 0..9 : DigitChars[d + 1] = c

RECURSIVE IntNat(_)
IntNat(s) ==
    IF s = <<>> THEN 0
    ELSE 10 * IntNat(SubSeq(s, 1, Len(s) - 1)) + DigitValue(s[Len(s)])

\* int(s) for a decimal string s; int(n) of an int is n itself
Int_(s) == IF s[1] = "-" THEN 0 - IntNat(Tail(s)) ELSE IntNat(s)

(***************************************************************************)
(* AddHeadroom(prefixcount), the same in both scripts: returns             *)
(* <<GWMax, multiplier>>.  prefixcount is the int PeeringDB reports.       *)
(***************************************************************************)
\* the multiplier taken from the digits of the count plus one
MultiplierOfNext(prefixcount) ==
    FloatAdd(FloatDivInt(6 - Len(Str(prefixcount + 1)), 10), FloatFromInt(1))

Multiplier(prefixcount) ==
    FloatAdd(FloatDivInt(6 - Len(Str(prefixcount)), 10), FloatFromInt(1))

GWMaxOf(prefixcount, multiplier) ==
    Ceil(FloatMul(FloatFromInt(prefixcount), multiplier))

AddHeadroom(prefixcount) ==
    LET multiplier == Multiplier(prefixcount)
        GWMax      == GWMaxOf(prefixcount, multiplier)
    IN  <<GWMax, multiplier>>

(***************************************************************************)
(* Python dicts.  A dict that the scripts iterate over is a sequence of    *)
(* [k, v] entries in insertion order with distinct keys; an inner dict or  *)
(* a JSON object that is only indexed is a function on its keys.           *)
(***************************************************************************)
DictHas(d, key) == \E j \in 1..Len(d) : d[j].k = key

DictIndex(d, key) == CHOOSE j \in 1..Len(d) : d[j].k = key

DictGet(d, key) == d[DictIndex(d, key)].v

\* a store that never looks for the key
DictAppend(d, key, val) == Append(d, [k |-> key, v |-> val])

\* d.update({key: val}) and d[key] = val: an existing key keeps its place
DictUpdate(d, key, val) ==
    IF DictHas(d, key)
    THEN LET j == DictIndex(d, key)
         IN  SubSeq(d, 1, j - 1) \o <<[k |-> key, v |-> val]>> \o SubSeq(d, j + 1, Len(d))
    ELSE Append(d, [k |-> key, v |-> val])

RECURSIVE DictKeys(_)
DictKeys(d) == IF d = <<>> THEN <<>> ELSE <<d[1].k>> \o DictKeys(Tail(d))

SeqHas(s, x) == \E j \in 1..Len(s) : s[j] = x

Has(obj, key) == key \in DOMAIN obj

\* obj[key] = val on a function-shaped dict
Put(obj, key, val) == (key :> val) @@ obj

(***************************************************************************)
(* Inputs.  The BGP stanza GetConfig returns is the list of groups         *)
(* bgpconfig['configuration'][0]['protocols'][0]['bgp'][0]['group']; a     *)
(* group is a JSON object with 'name', optionally 'peer-as' and optionally *)
(* 'family', whose keys (in document order) are the address families, each *)
(* optionally holding unicast/prefix-limit/maximum.  Numbers in the        *)
(* document are decimal strings.  A PeeringDB answer is the decoded JSON   *)
(* body, or the exception urlopen raised.                                  *)
(***************************************************************************)
MaxGroups == 2
NumPeers == 2

FirstAS == 9

\* peer AS numbers: 9 and 10 order differently as ints and as strings
PeerASNs == FirstAS..(FirstAS + NumPeers - 1)

\* configured maxima and announced prefix counts exercised
Limits == {4000, 4800, 5000}
Counts == {0, 9, 4000}

\* AddHeadroom is pure: its values on the announced counts, computed once
RECURSIVE HeadroomTable(_)
HeadroomTable(S) ==
    IF S = {} THEN <<>>
    ELSE LET n == CHOOSE x \in S : TRUE
         IN  (n :> AddHeadroom(n)) @@ HeadroomTable(S \ {n})

HeadroomOfCounts == HeadroomTable(Counts)

FamilyKeys == {"inet", "inet6"}

OtherKey(key) == IF key = "inet" THEN "inet6" ELSE "inet"

\* the prefix-limit subtree of one family key: with a maximum, or without
FamilyEntries(key) ==
    {[key |-> key, maximum |-> Str(m)] : m \in Limits} \cup {[key |-> key]}

\* the 'family' object: one key, or (against the expected shape) both
FamilyBlocks ==
    UNION {{<<e>> : e \in FamilyEntries(key)} : key \in FamilyKeys}
    \cup UNION {{<<e, [key |-> OtherKey(key), maximum |-> Str(4000)]>> :
                    e \in FamilyEntries(key)} : key \in FamilyKeys}

GroupName(i) == <<"g">> \o Str(i)

GroupsAt(i) ==
    LET base == {[name |-> GroupName(i)]}
                \cup {[name |-> GroupName(i), peer_as |-> Str(a)] : a \in PeerASNs}
    IN  base \cup {Put(g, "family", f) : g \in base, f \in FamilyBlocks}

RECURSIVE ConfigsOfLen(_)
ConfigsOfLen(n) ==
    IF n = 0 THEN {<<>>}
    ELSE {Append(c, g) : c \in ConfigsOfLen(n - 1), g \in GroupsAt(n)}

Answers ==
    {[data |-> <<[info_prefixes4 |-> a, info_prefixes6 |-> b]>>] : a, b \in Counts}
    \cup {[data |-> <<>>]}
    \cup {[raises |-> "URLError"]}


(***************************************************************************)
(* A call either returns a value or raises: an exception is the record     *)
(* [raises |-> <its type>], which main does not catch.                     *)
(***************************************************************************)
Raises(r) == "raises" \in DOMAIN r

\* the last key of the family object instead of the first
LastKey(family) == family[Len(family)].key

FirstKey(family) == family[1].key

HasFamilyKey(family, key) == \E j \in 1..Len(family) : family[j].key = key

FamilyEntry(family, key) == family[CHOOSE j \in 1..Len(family) : family[j].key = key]

(***************************************************************************)
(* oldScript.py                                                            *)
(***************************************************************************)
RECURSIVE old_ConfiguredPeersLoop(_, _, _, _)
old_ConfiguredPeersLoop(peerList, i, extracted4, extracted6) ==
    IF i > Len(peerList)
    THEN [extracted4 |-> extracted4, extracted6 |-> extracted6]
    ELSE LET peer == peerList[i] IN
         IF ~Has(peer, "peer_as") THEN [raises |-> "KeyError"]
         ELSE LET peerAS == Int_(peer.peer_as) IN
              IF ~Has(peer, "family")
              THEN old_ConfiguredPeersLoop(peerList, i + 1, extracted4, extracted6)
              ELSE LET familytype == FirstKey(peer.family)
                       entry      == FamilyEntry(peer.family, familytype)
                   IN  IF ~Has(entry, "maximum") THEN [raises |-> "KeyError"]
                       ELSE IF familytype = "inet"
                       THEN old_ConfiguredPeersLoop(peerList, i + 1,
                                DictUpdate(extracted4, peerAS, Int_(entry.maximum)),
                                extracted6)
                       ELSE old_ConfiguredPeersLoop(peerList, i + 1, extracted4,
                                DictUpdate(extracted6, peerAS, Int_(entry.maximum)))

old_ConfiguredPeers(peerList) == old_ConfiguredPeersLoop(peerList, 1, <<>>, <<>>)

\* the loop without its 'if not ASN in ASNs' test
RECURSIVE AppendAll(_, _, _)
AppendAll(ASNs, v6, j) ==
    IF j > Len(v6) THEN ASNs ELSE AppendAll(Append(ASNs, v6[j]), v6, j + 1)

RECURSIVE AppendMissing(_, _, _)
AppendMissing(ASNs, v6, j) ==
    IF j > Len(v6) THEN ASNs
    ELSE IF ~SeqHas(ASNs, v6[j]) THEN AppendMissing(Append(ASNs, v6[j]), v6, j + 1)
    ELSE AppendMissing(ASNs, v6, j + 1)

IntLess(a, b) == a < b

\* v4 and v6 are the two dicts of ConfiguredPeers; iterating a dict yields its keys
GenerateASN(v4, v6) ==
    SortSeq(AppendMissing(DictKeys(v4), DictKeys(v6), 1), IntLess)

\* the inner dict GetPeeringDBData stores for one family: the announced count,
\* and the <<GWMax, multiplier>> AddHeadroom returned for it
old_Announced(GW, pdbmax, h) ==
    (GW :> h[1]) @@ [pdbprefixes |-> pdbmax, multiplier |-> h[2]]

\* one pass of the loop of GetPeeringDBData, on the answer urlopen got for item
old_GetPeeringDBDataPass(item, answer, announcedv4, announcedv6) ==
    IF Raises(answer) THEN answer
    ELSE IF answer.data = <<>> THEN [raises |-> "IndexError"]
    ELSE [announcedv4 |->
            DictUpdate(announcedv4, item,
                old_Announced("v4GWprefixes", answer.data[1].info_prefixes4,
                              HeadroomOfCounts[answer.data[1].info_prefixes4])),
          announcedv6 |->
            DictUpdate(announcedv6, item,
                old_Announced("v6GWprefixes", answer.data[1].info_prefixes6,
                              HeadroomOfCounts[answer.data[1].info_prefixes6]))]

\* the 'mismatch' field findMismatch gives a row
old_Mismatch(GWprefixes, cfgMax) ==
    IF GWprefixes = 0 THEN "n/a"
    ELSE IF GWprefixes > cfgMax THEN "YES - reconfig"
    ELSE IF GWprefixes < cfgMax THEN "YES - exception"
    ELSE ""

\* the loop with cfgMax.get(ASN, 0) in the place of the test 'ASN in cfgMax'
RECURSIVE old_findMismatchLoopDefault(_, _, _, _, _)
old_findMismatchLoopDefault(cfgMax, annc, GW, j, table) ==
    IF j > Len(annc) THEN table
    ELSE LET ASN       == annc[j].k
             innerdict == annc[j].v
             configMax == IF DictHas(cfgMax, ASN) THEN DictGet(cfgMax, ASN) ELSE 0
         IN  old_findMismatchLoopDefault(cfgMax, annc, GW, j + 1,
                 Append(table,
                        [ASN |-> ASN, configMax |-> configMax,
                         prefixes |-> innerdict[GW],
                         pdbprefixes |-> innerdict.pdbprefixes,
                         multiplier |-> innerdict.multiplier,
                         mismatch |-> old_Mismatch(innerdict[GW], configMax)]))

\* one of the two loops of findMismatch; GW is "v4GWprefixes" or "v6GWprefixes"
RECURSIVE old_findMismatchLoop(_, _, _, _, _)
old_findMismatchLoop(cfgMax, annc, GW, j, table) ==
    IF j > Len(annc) THEN table
    ELSE LET ASN       == annc[j].k
             innerdict == annc[j].v
         IN  IF DictHas(cfgMax, ASN)
             THEN old_findMismatchLoop(cfgMax, annc, GW, j + 1,
                      Append(table,
                             [ASN |-> ASN, configMax |-> DictGet(cfgMax, ASN),
                              prefixes |-> innerdict[GW],
                              pdbprefixes |-> innerdict.pdbprefixes,
                              multiplier |-> innerdict.multiplier,
                              mismatch |-> old_Mismatch(innerdict[GW],
                                                        DictGet(cfgMax, ASN))]))
             ELSE old_findMismatchLoop(cfgMax, annc, GW, j + 1, table)

old_findMismatch(cfgMax4, cfgMax6, annc4, annc6) ==
    [v4table |-> old_findMismatchLoop(cfgMax4, annc4, "v4GWprefixes", 1, <<>>),
     v6table |-> old_findMismatchLoop(cfgMax6, annc6, "v6GWprefixes", 1, <<>>)]

\* a set command, "set protocols bgp group {} family F unicast prefix-limit O V"
Command(groupname, familyword, option, value) ==
    [group |-> groupname, family |-> familyword, option |-> option, value |-> value]

Teardown80 == Str(80)

\* the teardown line of the inet6 loop is written with "family inet"
old_TeardownWord(familykey) == "inet"

\* the inner loop over the groups of the stanza, for one row to reconfigure
RECURSIVE old_GroupLoop(_, _, _, _, _)
old_GroupLoop(item, groups, familykey, g, commands) ==
    IF g > Len(groups) THEN commands
    ELSE LET group == groups[g] IN
         IF /\ Has(group, "family")
            /\ HasFamilyKey(group.family, familykey)
            /\ item.ASN = Int_(group.peer_as)
            /\ FirstKey(group.family) = familykey
         THEN old_GroupLoop(item, groups, familykey, g + 1,
                  commands \o
                  <<Command(group.name, familykey, "maximum", Str(item.prefixes)),
                    Command(group.name, old_TeardownWord(familykey), "teardown",
                            Teardown80)>>)
         ELSE old_GroupLoop(item, groups, familykey, g + 1, commands)

RECURSIVE old_ResultLoop(_, _, _, _, _)
old_ResultLoop(results, groups, familykey, j, commands) ==
    IF j > Len(results) THEN commands
    ELSE IF results[j].mismatch = "YES - reconfig"
    THEN old_ResultLoop(results, groups, familykey, j + 1,
                        old_GroupLoop(results[j], groups, familykey, 1, commands))
    ELSE old_ResultLoop(results, groups, familykey, j + 1, commands)

old_generateSetCommands(rows4, rows6, bgpstanza) ==
    [v4commands |-> old_ResultLoop(rows4, bgpstanza, "inet", 1, <<>>),
     v6commands |-> old_ResultLoop(rows6, bgpstanza, "inet6", 1, <<>>)]


(***************************************************************************)
(* checkMaxPrefixes.py: one masterdict, ASN -> inner dict of the network   *)
(***************************************************************************)
\* a store that also gives the network a limit of "0" for the family the
\* group does not configure
SetInnerDefaulted(workingdict, ASN, key, val) ==
    LET inner  == IF DictHas(workingdict, ASN) THEN DictGet(workingdict, ASN) ELSE <<>>
        filled == IF Has(inner, "v4configmax") THEN inner
                  ELSE Put(inner, "v4configmax", Str(0))
        both   == IF Has(filled, "v6configmax") THEN filled
                  ELSE Put(filled, "v6configmax", Str(0))
    IN  DictUpdate(workingdict, ASN, Put(both, key, val))

\* workingdict[ASN][key] = val on a defaultdict(dict)
SetInner(workingdict, ASN, key, val) ==
    DictUpdate(workingdict, ASN,
               Put(IF DictHas(workingdict, ASN) THEN DictGet(workingdict, ASN) ELSE <<>>,
                   key, val))

RECURSIVE ConfiguredPeersLoop(_, _, _)
ConfiguredPeersLoop(peerList, i, workingdict) ==
    IF i > Len(peerList) THEN [workingdict |-> workingdict]
    ELSE LET peer == peerList[i] IN
         IF ~Has(peer, "family") THEN ConfiguredPeersLoop(peerList, i + 1, workingdict)
         ELSE IF ~Has(peer, "peer_as") THEN [raises |-> "KeyError"]
         ELSE LET ASN        == peer.peer_as
                  familytype == FirstKey(peer.family)
                  entry      == FamilyEntry(peer.family, familytype)
              IN  IF ~Has(entry, "maximum") THEN [raises |-> "KeyError"]
                  ELSE IF familytype = "inet"
                  THEN ConfiguredPeersLoop(peerList, i + 1,
                           SetInner(SetInner(workingdict, ASN, "v4groupname", peer.name),
                                    ASN, "v4configmax", entry.maximum))
                  ELSE ConfiguredPeersLoop(peerList, i + 1,
                           SetInner(SetInner(workingdict, ASN, "v6groupname", peer.name),
                                    ASN, "v6configmax", entry.maximum))

ConfiguredPeers(peerList) == ConfiguredPeersLoop(peerList, 1, <<>>)

\* the six keys GetPeeringDBData stores in the inner dict of one network
Announced(pdbmax4, h4, pdbmax6, h6) ==
    [pdbmax4 |-> pdbmax4, headroomv4 |-> h4[1], multiplierv4 |-> h4[2],
     pdbmax6 |-> pdbmax6, headroomv6 |-> h6[1], multiplierv6 |-> h6[2]]

\* a pass that skips the network whose lookup failed, and goes on
GetPeeringDBDataPassSkip(ASN, answer, mdict) ==
    IF Raises(answer) \/ answer.data = <<>> THEN [masterdict |-> mdict]
    ELSE [masterdict |->
            DictUpdate(mdict, ASN,
                Announced(answer.data[1].info_prefixes4,
                          HeadroomOfCounts[answer.data[1].info_prefixes4],
                          answer.data[1].info_prefixes6,
                          HeadroomOfCounts[answer.data[1].info_prefixes6])
                @@ DictGet(mdict, ASN))]

\* one pass of the loop of GetPeeringDBData, on the answer urlopen got for ASN
GetPeeringDBDataPass(ASN, answer, mdict) ==
    IF Raises(answer) THEN answer
    ELSE IF answer.data = <<>> THEN [raises |-> "IndexError"]
    ELSE [masterdict |->
            DictUpdate(mdict, ASN,
                Announced(answer.data[1].info_prefixes4,
                          HeadroomOfCounts[answer.data[1].info_prefixes4],
                          answer.data[1].info_prefixes6,
                          HeadroomOfCounts[answer.data[1].info_prefixes6])
                @@ DictGet(mdict, ASN))]

\* the status findMismatch gives a configured maximum against the headroom
\* the comparison with its two inequalities exchanged
StatusSwapped(configmax, headroom) ==
    IF Int_(configmax) = headroom THEN "MATCH"
    ELSE IF Int_(configmax) > headroom THEN "MISMATCH - RECONFIGURE"
    ELSE "MISMATCH - EXCEPTION"

Status(configmax, headroom) ==
    IF Int_(configmax) = headroom THEN "MATCH"
    ELSE IF Int_(configmax) < headroom THEN "MISMATCH - RECONFIGURE"
    ELSE "MISMATCH - EXCEPTION"

findMismatchEntry(inner) ==
    LET with4 == IF Has(inner, "v4configmax")
                 THEN Put(inner, "v4status", Status(inner.v4configmax, inner.headroomv4))
                 ELSE inner
    IN  IF Has(with4, "v6configmax")
        THEN Put(with4, "v6status", Status(with4.v6configmax, with4.headroomv6))
        ELSE with4

RECURSIVE findMismatch(_)
findMismatch(mdict) ==
    IF mdict = <<>> THEN <<>>
    ELSE <<[k |-> mdict[1].k, v |-> findMismatchEntry(mdict[1].v)]>>
         \o findMismatch(Tail(mdict))

\* the limit written into the inet6 maximum line is read from headroomv4
NewPfxLimit6(inner) == inner.headroomv4

Commands4(inner) ==
    IF Has(inner, "v4configmax") /\ inner.v4status = "MISMATCH - RECONFIGURE"
    THEN <<Command(inner.v4groupname, "inet", "maximum", Str(inner.headroomv4)),
           Command(inner.v4groupname, "inet", "teardown", Teardown80)>>
    ELSE <<>>

Commands6(inner) ==
    IF Has(inner, "v6configmax") /\ inner.v6status = "MISMATCH - RECONFIGURE"
    THEN <<Command(inner.v6groupname, "inet6", "maximum", Str(NewPfxLimit6(inner))),
           Command(inner.v6groupname, "inet6", "teardown", Teardown80)>>
    ELSE <<>>

RECURSIVE generateSetCommandsLoop(_, _, _, _)
generateSetCommandsLoop(mdict, j, cmds4, cmds6) ==
    IF j > Len(mdict) THEN [v4commands |-> cmds4, v6commands |-> cmds6]
    ELSE generateSetCommandsLoop(mdict, j + 1,
                                 cmds4 \o Commands4(mdict[j].v),
                                 cmds6 \o Commands6(mdict[j].v))

generateSetCommands(mdict) == generateSetCommandsLoop(mdict, 1, <<>>, <<>>)

\* every arrangement of the items of a list
RECURSIVE Arrangements(_)
Arrangements(d) ==
    IF d = <<>> THEN {<<>>}
    ELSE UNION {{<<d[j]>> \o rest :
                    rest \in Arrangements(SubSeq(d, 1, j - 1) \o SubSeq(d, j + 1, Len(d)))} :
                j \in 1..Len(d)}

\* iteration in the order of the hashes of the keys, which for str keys
\* differs from one interpreter process to the next
HashOrders(d) == Arrangements(d)

\* the orders in which 'for entry in masterdict' can visit the networks: a
\* dict iterates in insertion order, the one order
IterationOrders(d) == {d}

(***************************************************************************)
(* The end of generateSetCommands, the same in both scripts: a file is     *)
(* opened (and its message printed) only for a non-empty command list.     *)
(* A file's content is '\n'.join(commands): the commands, in order.        *)
(***************************************************************************)
\* the writes without their 'if len(...) > 0' tests
WriteFilesAlways(cmds4, cmds6) ==
    ("v4commands.txt" :> cmds4) @@ ("v6commands.txt" :> cmds6)

WriteFiles(cmds4, cmds6) ==
    (IF Len(cmds4) > 0 THEN "v4commands.txt" :> cmds4 ELSE <<>>)
    @@ (IF Len(cmds6) > 0 THEN "v6commands.txt" :> cmds6 ELSE <<>>)

Messages(cmds4, cmds6) ==
    (IF Len(cmds4) > 0 THEN <<"changes to v4 peers.  see v4commands.txt">> ELSE <<>>)
    \o (IF Len(cmds6) > 0 THEN <<"changes to v6 peers.  see v6commands.txt">> ELSE <<>>)


(***************************************************************************)
(* State of one run of main().  The scripts run from cron, adhoc = False   *)
(* (its default), so createTable is not called.                            *)
(***************************************************************************)
VARIABLES
    script,       \* which of the two scripts runs
    bgpconfig,    \* the group list GetConfig returned
    pc,           \* the call main is about to make; "done"; "raised"
    raised,       \* the uncaught exception that ended the run, "" if none
    configMax4, configMax6,   \* oldScript main: the dicts of ConfiguredPeers
    ASNlist,                  \* oldScript main: the list of GenerateASN
    announced4, announced6,   \* oldScript main: the dicts of GetPeeringDBData
    v4results, v6results,     \* oldScript main: the tables of findMismatch
    masterdict,               \* checkMaxPrefixes main: the dict of networks
    queried,      \* the ASNs urlopen was called for, in order
    answers,      \* what PeeringDB answered to each of these calls
    v4commands, v6commands,   \* the command lists of generateSetCommands
    files,        \* the files written: name -> content
    stdout,       \* the lines printed
    count,  \* the argument of a call of AddHeadroom on its own
    returned      \* what that call returned, <<>> before it returns

vars == <<script, bgpconfig, pc, raised, configMax4, configMax6, ASNlist,
          announced4, announced6, v4results, v6results, masterdict, queried, answers,
          v4commands, v6commands, files, stdout, count, returned>>

Scripts == {"oldScript", "checkMaxPrefixes"}

Locals ==
    /\ raised = ""
    /\ configMax4 = <<>> /\ configMax6 = <<>> /\ ASNlist = <<>>
    /\ announced4 = <<>> /\ announced6 = <<>>
    /\ v4results = <<>> /\ v6results = <<>>
    /\ masterdict = <<>>
    /\ queried = <<>>
    /\ answers = <<>>
    /\ v4commands = <<>> /\ v6commands = <<>>
    /\ files = <<>>
    /\ stdout = <<>>

Init ==
    /\ script \in Scripts
    /\ \E n \in 0..MaxGroups : bgpconfig \in ConfigsOfLen(n)
    /\ pc = "ConfiguredPeers"
    /\ Locals
    /\ count = 0
    /\ returned = <<>>

Raise(r) == pc' = "raised" /\ raised' = r.raises

\* oldScript: configMax4, configMax6 = ConfiguredPeers(bgpstanza)
Do_old_ConfiguredPeers ==
    /\ script = "oldScript" /\ pc = "ConfiguredPeers"
    /\ LET r == old_ConfiguredPeers(bgpconfig) IN
       IF Raises(r)
       THEN Raise(r) /\ UNCHANGED <<configMax4, configMax6>>
       ELSE /\ configMax4' = r.extracted4
            /\ configMax6' = r.extracted6
            /\ pc' = "GenerateASN"
            /\ UNCHANGED raised
    /\ UNCHANGED <<script, bgpconfig, ASNlist, announced4, announced6, v4results,
                   v6results, masterdict, queried, answers, v4commands, v6commands, files,
                   stdout, count, returned>>

\* oldScript: ASNlist = GenerateASN(configMax4, configMax6)
Do_GenerateASN ==
    /\ script = "oldScript" /\ pc = "GenerateASN"
    /\ ASNlist' = GenerateASN(configMax4, configMax6)
    /\ pc' = "GetPeeringDBData"
    /\ UNCHANGED <<script, bgpconfig, raised, configMax4, configMax6, announced4,
                   announced6, v4results, v6results, masterdict, queried, answers, v4commands,
                   v6commands, files, stdout, count, returned>>

\* what a pass leaves in main: the exception, or the two dicts updated
old_PassDone(r) ==
    IF Raises(r)
    THEN Raise(r) /\ UNCHANGED <<announced4, announced6>>
    ELSE /\ announced4' = r.announcedv4
         /\ announced6' = r.announcedv6
         /\ UNCHANGED <<pc, raised>>

\* oldScript: one pass of the loop of GetPeeringDBData(ASNlist): a request to
\* PeeringDB, answered by the registry
Do_old_GetPeeringDBDataPass ==
    /\ script = "oldScript" /\ pc = "GetPeeringDBData"
    /\ Len(queried) < Len(ASNlist)
    /\ queried' = Append(queried, Str(ASNlist[Len(queried) + 1]))
    /\ \E answer \in Answers :
         /\ answers' = Append(answers, answer)
         /\ old_PassDone(old_GetPeeringDBDataPass(ASNlist[Len(queried) + 1], answer,
                                                  announced4, announced6))
    /\ UNCHANGED <<script, bgpconfig, configMax4, configMax6, ASNlist, v4results,
                   v6results, masterdict, v4commands, v6commands, files, stdout,
                   count, returned>>

\* oldScript: the loop of GetPeeringDBData is exhausted and the call returns
Do_old_GetPeeringDBDataReturn ==
    /\ script = "oldScript" /\ pc = "GetPeeringDBData"
    /\ Len(queried) = Len(ASNlist)
    /\ pc' = "findMismatch"
    /\ UNCHANGED <<script, bgpconfig, raised, configMax4, configMax6, ASNlist,
                   announced4, announced6, v4results, v6results, masterdict, queried, answers,
                   v4commands, v6commands, files, stdout, count, returned>>

\* oldScript: v4results, v6results = findMismatch(...)
Do_old_findMismatch ==
    /\ script = "oldScript" /\ pc = "findMismatch"
    /\ LET r == old_findMismatch(configMax4, configMax6, announced4, announced6) IN
       /\ v4results' = r.v4table
       /\ v6results' = r.v6table
    /\ pc' = "generateSetCommands"
    /\ UNCHANGED <<script, bgpconfig, raised, configMax4, configMax6, ASNlist,
                   announced4, announced6, masterdict, queried, answers, v4commands,
                   v6commands, files, stdout, count, returned>>

\* oldScript: generateSetCommands(v4results, v6results, bgpstanza), files included
Do_old_generateSetCommands ==
    /\ script = "oldScript" /\ pc = "generateSetCommands"
    /\ LET r == old_generateSetCommands(v4results, v6results, bgpconfig) IN
       /\ v4commands' = r.v4commands
       /\ v6commands' = r.v6commands
       /\ files' = WriteFiles(r.v4commands, r.v6commands)
       /\ stdout' = stdout \o Messages(r.v4commands, r.v6commands)
    /\ pc' = "done"
    /\ UNCHANGED <<script, bgpconfig, raised, configMax4, configMax6, ASNlist,
                   announced4, announced6, v4results, v6results, masterdict, queried, answers,
                   count, returned>>

\* checkMaxPrefixes: masterdict = ConfiguredPeers(bgpstanza)
Do_ConfiguredPeers ==
    /\ script = "checkMaxPrefixes" /\ pc = "ConfiguredPeers"
    /\ LET r == ConfiguredPeers(bgpconfig) IN
       IF Raises(r)
       THEN Raise(r) /\ UNCHANGED masterdict
       ELSE /\ masterdict' = r.workingdict
            /\ pc' = "GetPeeringDBData"
            /\ UNCHANGED raised
    /\ UNCHANGED <<script, bgpconfig, configMax4, configMax6, ASNlist, announced4,
                   announced6, v4results, v6results, queried, answers, v4commands, v6commands,
                   files, stdout, count, returned>>

\* what a pass leaves in main: the exception, or masterdict updated
PassDone(r) ==
    IF Raises(r)
    THEN Raise(r) /\ UNCHANGED masterdict
    ELSE /\ masterdict' = r.masterdict
         /\ UNCHANGED <<pc, raised>>

\* checkMaxPrefixes: one pass of the loop of GetPeeringDBData(masterdict)
Do_GetPeeringDBDataPass ==
    /\ script = "checkMaxPrefixes" /\ pc = "GetPeeringDBData"
    /\ Len(queried) < Len(masterdict)
    /\ queried' = Append(queried, masterdict[Len(queried) + 1].k)
    /\ \E answer \in Answers :
         /\ answers' = Append(answers, answer)
         /\ PassDone(GetPeeringDBDataPass(masterdict[Len(queried) + 1].k, answer,
                                          masterdict))
    /\ UNCHANGED <<script, bgpconfig, configMax4, configMax6, ASNlist, announced4,
                   announced6, v4results, v6results, v4commands, v6commands, files,
                   stdout, count, returned>>

\* checkMaxPrefixes: the loop of GetPeeringDBData is exhausted and the call returns
Do_GetPeeringDBDataReturn ==
    /\ script = "checkMaxPrefixes" /\ pc = "GetPeeringDBData"
    /\ Len(queried) = Len(masterdict)
    /\ pc' = "findMismatch"
    /\ UNCHANGED <<script, bgpconfig, raised, configMax4, configMax6, ASNlist,
                   announced4, announced6, v4results, v6results, masterdict, queried, answers,
                   v4commands, v6commands, files, stdout, count, returned>>

\* checkMaxPrefixes: findMismatch(masterdict)
Do_findMismatch ==
    /\ script = "checkMaxPrefixes" /\ pc = "findMismatch"
    /\ masterdict' = findMismatch(masterdict)
    /\ pc' = "generateSetCommands"
    /\ UNCHANGED <<script, bgpconfig, raised, configMax4, configMax6, ASNlist,
                   announced4, announced6, v4results, v6results, queried, answers, v4commands,
                   v6commands, files, stdout, count, returned>>

\* checkMaxPrefixes: generateSetCommands(masterdict), files included
Do_generateSetCommands ==
    /\ script = "checkMaxPrefixes" /\ pc = "generateSetCommands"
    /\ \E d \in IterationOrders(masterdict) :
       LET r == generateSetCommands(d) IN
       /\ v4commands' = r.v4commands
       /\ v6commands' = r.v6commands
       /\ files' = WriteFiles(r.v4commands, r.v6commands)
       /\ stdout' = stdout \o Messages(r.v4commands, r.v6commands)
    /\ pc' = "done"
    /\ UNCHANGED <<script, bgpconfig, raised, configMax4, configMax6, ASNlist,
                   announced4, announced6, v4results, v6results, masterdict, queried, answers,
                   count, returned>>

Next ==
    \/ Do_old_ConfiguredPeers
    \/ Do_GenerateASN
    \/ Do_old_GetPeeringDBDataPass
    \/ Do_old_GetPeeringDBDataReturn
    \/ Do_old_findMismatch
    \/ Do_old_generateSetCommands
    \/ Do_ConfiguredPeers
    \/ Do_GetPeeringDBDataPass
    \/ Do_GetPeeringDBDataReturn
    \/ Do_findMismatch
    \/ Do_generateSetCommands

Spec == Init /\ [][Next]_vars

(***************************************************************************)
(* AddHeadroom called on its own, on counts of every digit length.         *)
(***************************************************************************)
MaxCount == 12000
MaxDigits == 7

RECURSIVE Pow10(_)
Pow10(j) == IF j = 0 THEN 1 ELSE 10 * Pow10(j - 1)

HeadroomInputs ==
    (0..MaxCount)
    \cup {m * Pow10(j - 1) + o : m \in 1..9, j \in 5..MaxDigits, o \in {0, 1}}
    \cup {Pow10(j) - 1 : j \in 5..MaxDigits}

\* negative ints, which AddHeadroom may be handed as well
MaxNegative == 20
NegativeInputs == {0 - n : n \in 1..MaxNegative}

InitHeadroom ==
    /\ script = "checkMaxPrefixes"
    /\ bgpconfig = <<>>
    /\ pc = "AddHeadroom"
    /\ Locals
    /\ count \in HeadroomInputs \cup NegativeInputs
    /\ returned = <<>>

Do_AddHeadroom ==
    /\ pc = "AddHeadroom"
    /\ returned' = AddHeadroom(count)
    /\ pc' = "returned"
    /\ UNCHANGED <<script, bgpconfig, raised, configMax4, configMax6, ASNlist,
                   announced4, announced6, v4results, v6results, masterdict, queried, answers,
                   v4commands, v6commands, files, stdout, count>>

NextHeadroom == Do_AddHeadroom

SpecHeadroom == InitHeadroom /\ [][NextHeadroom]_vars


(***************************************************************************)
(* Views of the state used by the properties below: the classification     *)
(* results of either script as uniform records, the registry's answer for  *)
(* a peer, and the commands emitted for a peer and family.                 *)
(***************************************************************************)
SeqToSet(s) == {s[i] : i \in 1..Len(s)}

\* findMismatch has returned
Classified == pc \in {"generateSetCommands", "done"}

DispositionOfMismatch(m) ==
    CASE m = "n/a" -> "UNRATED"
      [] m = "YES - reconfig" -> "RECONFIGURE"
      [] m = "YES - exception" -> "EXCEPTION"
      [] m = "" -> "MATCH"

DispositionOfStatus(st) ==
    CASE st = "MATCH" -> "MATCH"
      [] st = "MISMATCH - RECONFIGURE" -> "RECONFIGURE"
      [] st = "MISMATCH - EXCEPTION" -> "EXCEPTION"

RowResult(row, fam) ==
    [peer |-> row.ASN, family |-> fam, configuredLimit |-> row.configMax,
     reportedCount |-> row.pdbprefixes, recommendedLimit |-> row.prefixes,
     disposition |-> DispositionOfMismatch(row.mismatch)]

OldResults ==
    {RowResult(v4results[i], "inet") : i \in 1..Len(v4results)}
    \cup {RowResult(v6results[i], "inet6") : i \in 1..Len(v6results)}

NewResults ==
    {[peer |-> Int_(e.k), family |-> "inet",
      configuredLimit |-> Int_(e.v.v4configmax), reportedCount |-> e.v.pdbmax4,
      recommendedLimit |-> e.v.headroomv4,
      disposition |-> DispositionOfStatus(e.v.v4status)] :
        e \in {x \in SeqToSet(masterdict) : Has(x.v, "v4status")}}
    \cup
    {[peer |-> Int_(e.k), family |-> "inet6",
      configuredLimit |-> Int_(e.v.v6configmax), reportedCount |-> e.v.pdbmax6,
      recommendedLimit |-> e.v.headroomv6,
      disposition |-> DispositionOfStatus(e.v.v6status)] :
        e \in {x \in SeqToSet(masterdict) : Has(x.v, "v6status")}}

Results == IF script = "oldScript" THEN OldResults ELSE NewResults

\* the count PeeringDB answered for the peer in the family
Reported(peer, fam) ==
    LET a == answers[CHOOSE i \in 1..Len(queried) : queried[i] = Str(peer)].data[1]
    IN  IF fam = "inet" THEN a.info_prefixes4 ELSE a.info_prefixes6

\* the groups of the stanza configured for the peer in the family
GroupsOf(peer, fam) ==
    {g \in SeqToSet(bgpconfig) :
        /\ Has(g, "family") /\ Has(g, "peer_as")
        /\ Int_(g.peer_as) = peer
        /\ FirstKey(g.family) = fam}

GroupNamesOf(peer, fam) == {g.name : g \in GroupsOf(peer, fam)}

CommandList(fam) == IF fam = "inet" THEN v4commands ELSE v6commands

\* the positions in the family's command list of the commands for the peer
CommandsFor(peer, fam) ==
    {i \in 1..Len(CommandList(fam)) :
        CommandList(fam)[i].group \in GroupNamesOf(peer, fam)}

(***************************************************************************)
(* C1: for every reportedCount >= 0, AddHeadroom returns                   *)
(* recommendedLimit = ceiling(reportedCount * multiplier) with             *)
(* multiplier = (6 - digits)/10 + 1 = (16 - digits)/10, in exact           *)
(* arithmetic.                                                             *)
(***************************************************************************)
ExactCeiling(n) == (n * (16 - Len(Str(n))) + 9) \div 10

C1_HeadroomIsExactCeiling ==
    (pc = "returned" /\ count >= 0) => returned[1] = ExactCeiling(count)

(***************************************************************************)
(* C2: for every reportedCount >= 0, of any digit length, the              *)
(* recommendedLimit AddHeadroom returns is at least reportedCount.         *)
(***************************************************************************)
C2_HeadroomNotBelowCount ==
    (pc = "returned" /\ count >= 0) => returned[1] >= count

(***************************************************************************)
(* C3: every peer/family result whose registry reportedCount is 0 has the  *)
(* disposition UNRATED whatever its configured limit, and no change        *)
(* statement is emitted for that peer and family.                          *)
(***************************************************************************)
C3_ZeroCountIsUnrated ==
    Classified =>
        \A r \in Results :
            Reported(r.peer, r.family) = 0 =>
                /\ r.disposition = "UNRATED"
                /\ pc = "done" => CommandsFor(r.peer, r.family) = {}

(***************************************************************************)
(* C4: every peer/family result whose recommendedLimit is not 0 has        *)
(* exactly the disposition the comparison gives: MATCH if                  *)
(* configuredLimit = recommendedLimit, RECONFIGURE if it is lower,         *)
(* EXCEPTION if it is higher, recommendedLimit being the headroom of the   *)
(* count the registry reported for that same family.                       *)
(***************************************************************************)
Expected(configuredLimit, recommendedLimit) ==
    IF configuredLimit = recommendedLimit THEN "MATCH"
    ELSE IF configuredLimit < recommendedLimit THEN "RECONFIGURE"
    ELSE "EXCEPTION"

C4_DispositionByComparison ==
    Classified =>
        \A r \in Results :
            LET rec == HeadroomOfCounts[Reported(r.peer, r.family)][1] IN
            rec # 0 =>
                /\ r.recommendedLimit = rec
                /\ r.disposition = Expected(r.configuredLimit, rec)

\* configured 4000 against reported 4000 (headroom 4800) is RECONFIGURE while
\* configured 5000 against the same report is EXCEPTION, and a MATCH exists
C4_Witness ==
    /\ pc = "done"
    /\ \E r \in Results :
         /\ r.configuredLimit = 4000 /\ Reported(r.peer, r.family) = 4000
         /\ r.recommendedLimit = 4800 /\ r.disposition = "RECONFIGURE"
    /\ \E r \in Results :
         /\ r.configuredLimit = 5000 /\ Reported(r.peer, r.family) = 4000
         /\ r.disposition = "EXCEPTION"


(***************************************************************************)
(* C5: for each RECONFIGURE result (peer p, family f), exactly two         *)
(* statements are emitted for the group configured for p in f: one         *)
(* 'maximum N' with N the recommendedLimit of that same family, and one    *)
(* 'teardown 80'; for IPv6 results as for IPv4 results.                    *)
(***************************************************************************)
C5_TwoStatementsPerReconfigure ==
    pc = "done" =>
        \A r \in Results :
            r.disposition = "RECONFIGURE" =>
                LET at == CommandsFor(r.peer, r.family)
                    L  == CommandList(r.family)
                IN  /\ Cardinality(at) = 2
                    /\ \E i \in at : /\ L[i].option = "maximum"
                                     /\ L[i].value = Str(r.recommendedLimit)
                    /\ \E i \in at : /\ L[i].option = "teardown"
                                     /\ L[i].value = Str(80)

(***************************************************************************)
(* C6: no statement is emitted for a peer/family whose disposition is      *)
(* MATCH, EXCEPTION or UNRATED, and every 'maximum' statement emitted for  *)
(* a peer/family sets a value strictly above its configured limit.         *)
(***************************************************************************)
C6_OnlyRaisesLimits ==
    pc = "done" =>
        \A r \in Results :
            /\ r.disposition # "RECONFIGURE" => CommandsFor(r.peer, r.family) = {}
            /\ \A i \in CommandsFor(r.peer, r.family) :
                 CommandList(r.family)[i].option = "maximum" =>
                     Int_(CommandList(r.family)[i].value) > r.configuredLimit

(***************************************************************************)
(* C7: every statement of the IPv4 command sequence carries the family     *)
(* keyword inet and every statement of the IPv6 command sequence carries   *)
(* inet6, the maximum lines and the teardown lines alike.                  *)
(***************************************************************************)
C7_FamilyKeywords ==
    /\ \A i \in 1..Len(v4commands) : v4commands[i].family = "inet"
    /\ \A i \in 1..Len(v6commands) : v6commands[i].family = "inet6"

(***************************************************************************)
(* C8: GenerateASN returns exactly the peer identities present in either   *)
(* family's collection, each once, in ascending numeric order.             *)
(***************************************************************************)
\* GenerateASN has returned (oldScript)
Generated ==
    /\ script = "oldScript"
    /\ \/ pc \in {"GetPeeringDBData", "findMismatch", "generateSetCommands", "done"}
       \/ pc = "raised" /\ queried # <<>>

C8_GenerateASNSortedUnion ==
    Generated =>
        /\ SeqToSet(ASNlist) = SeqToSet(DictKeys(configMax4))
                               \cup SeqToSet(DictKeys(configMax6))
        /\ \A i, j \in 1..Len(ASNlist) : i < j => ASNlist[i] < ASNlist[j]

\* a peer present in both families, and listed once
C8_Witness ==
    /\ Generated
    /\ \E a \in PeerASNs : /\ DictHas(configMax4, a) /\ DictHas(configMax6, a)
                           /\ ASNlist = <<a>>

(***************************************************************************)
(* C9: in any run the registry is queried at most once for each distinct   *)
(* peer identity, also for a peer configured for both families, and only   *)
(* for identities with a configured prefix limit; once the lookups have    *)
(* completed, each such identity has been queried exactly once.            *)
(***************************************************************************)
ConfiguredIdentities ==
    {g.peer_as : g \in {x \in SeqToSet(bgpconfig) :
                          /\ Has(x, "family") /\ Has(x, "peer_as")
                          /\ Has(FamilyEntry(x.family, FirstKey(x.family)), "maximum")}}

LookupsCompleted == pc \in {"findMismatch", "generateSetCommands", "done"}

C9_OneLookupPerIdentity ==
    /\ \A i, j \in 1..Len(queried) : queried[i] = queried[j] => i = j
    /\ SeqToSet(queried) \subseteq ConfiguredIdentities
    /\ LookupsCompleted => SeqToSet(queried) = ConfiguredIdentities

\* a peer configured for both families, queried once in a completed run
C9_Witness ==
    /\ pc = "done"
    /\ Len(queried) = 1
    /\ \E g, h \in SeqToSet(bgpconfig) :
         /\ Has(g, "family") /\ Has(h, "family")
         /\ g.peer_as = h.peer_as
         /\ FirstKey(g.family) = "inet" /\ FirstKey(h.family) = "inet6"

(***************************************************************************)
(* C10: a family's output file is written if and only if that family's     *)
(* command sequence is non-empty, and then holds that sequence; with no    *)
(* RECONFIGURE result in a family neither the file nor the message of      *)
(* that family appears, whatever the other family does.                    *)
(***************************************************************************)
FileName(fam) == IF fam = "inet" THEN "v4commands.txt" ELSE "v6commands.txt"

MessageOf(fam) ==
    IF fam = "inet" THEN "changes to v4 peers.  see v4commands.txt"
    ELSE "changes to v6 peers.  see v6commands.txt"

C10_FileIffCommands ==
    pc = "done" =>
        \A fam \in FamilyKeys :
            /\ FileName(fam) \in DOMAIN files <=> Len(CommandList(fam)) > 0
            /\ FileName(fam) \in DOMAIN files => files[FileName(fam)] = CommandList(fam)
            /\ MessageOf(fam) \in SeqToSet(stdout) <=> Len(CommandList(fam)) > 0
            /\ (~\E r \in Results : r.family = fam /\ r.disposition = "RECONFIGURE")
                 => /\ FileName(fam) \notin DOMAIN files
                    /\ MessageOf(fam) \notin SeqToSet(stdout)

\* the IPv4 file is written while IPv6, configured but with nothing to
\* reconfigure, gets no file
C10_Witness ==
    /\ pc = "done"
    /\ "v4commands.txt" \in DOMAIN files
    /\ "v6commands.txt" \notin DOMAIN files
    /\ \E r \in Results : r.family = "inet6"


(***************************************************************************)
(* C11: a fatal error (a malformed configuration, a failed or ill-shaped   *)
(* registry lookup for any identity) aborts the run with no output file    *)
(* written; a file is written only after extraction, every lookup and the  *)
(* classification of every configured peer completed successfully.         *)
(***************************************************************************)
FatalAnswer(answer) == Raises(answer) \/ answer.data = <<>>

C11_AbortWritesNoFile ==
    /\ (\E i \in 1..Len(answers) : FatalAnswer(answers[i])) => pc = "raised"
    /\ raised # "" => pc = "raised"
    /\ pc = "raised" => files = <<>> /\ stdout = <<>>
    /\ files # <<>> =>
         /\ pc = "done" /\ raised = ""
         /\ SeqToSet(queried) = ConfiguredIdentities
         /\ Len(answers) = Len(queried)
         /\ \A g \in SeqToSet(bgpconfig) :
              Has(g, "family") =>
                  \E r \in Results : /\ r.peer = Int_(g.peer_as)
                                     /\ r.family = FirstKey(g.family)

\* the second lookup of a run fails after the first succeeded, on a
\* configuration that would otherwise lead to a file
C11_Witness ==
    /\ pc = "raised" /\ files = <<>>
    /\ Len(answers) = 2
    /\ ~FatalAnswer(answers[1]) /\ FatalAnswer(answers[2])
    /\ answers[1].data[1].info_prefixes4 = 4000
    /\ \E g \in SeqToSet(bgpconfig) :
         /\ Has(g, "family") /\ g.peer_as = queried[1]
         /\ g.family = <<[key |-> "inet", maximum |-> Str(4000)]>>

(***************************************************************************)
(* C12: the pipeline is deterministic: the IPv4 and IPv6 command sequences *)
(* (statements and their order) and the output files of a completed run    *)
(* are a function of the configuration document and of the registry's      *)
(* responses, so two runs on the same inputs produce the same outputs.     *)
(***************************************************************************)
RECURSIVE old_Lookups(_, _, _, _, _)
old_Lookups(ASNs, anss, j, a4, a6) ==
    IF j > Len(ASNs) THEN [announcedv4 |-> a4, announcedv6 |-> a6]
    ELSE LET r == old_GetPeeringDBDataPass(ASNs[j], anss[j], a4, a6)
         IN  old_Lookups(ASNs, anss, j + 1, r.announcedv4, r.announcedv6)

RECURSIVE Lookups(_, _, _)
Lookups(mdict, anss, j) ==
    IF j > Len(mdict) THEN mdict
    ELSE Lookups(GetPeeringDBDataPass(mdict[j].k, anss[j], mdict).masterdict, anss, j + 1)

\* the output of a completed run as a function of its two inputs
old_Pipeline(config, anss) ==
    LET c == old_ConfiguredPeers(config)
        a == old_Lookups(GenerateASN(c.extracted4, c.extracted6), anss, 1, <<>>, <<>>)
        t == old_findMismatch(c.extracted4, c.extracted6, a.announcedv4, a.announcedv6)
    IN  old_generateSetCommands(t.v4table, t.v6table, config)

Pipeline(config, anss) ==
    generateSetCommands(findMismatch(Lookups(ConfiguredPeers(config).workingdict, anss, 1)))

OutputOf(s, config, anss) ==
    IF s = "oldScript" THEN old_Pipeline(config, anss) ELSE Pipeline(config, anss)

Extracted ==
    \/ pc \in {"GenerateASN", "GetPeeringDBData", "findMismatch",
               "generateSetCommands", "done"}
    \/ pc = "raised" /\ queried # <<>>

DistinctKeys(d) == \A i, j \in 1..Len(d) : d[i].k = d[j].k => i = j

ConfigMaxKey(fam) == IF fam = "inet" THEN "v4configmax" ELSE "v6configmax"

GroupNameKey(fam) == IF fam = "inet" THEN "v4groupname" ELSE "v6groupname"

\* the pair has a record
Recorded(peer, fam) ==
    IF script = "oldScript"
    THEN DictHas(IF fam = "inet" THEN configMax4 ELSE configMax6, peer)
    ELSE /\ DictHas(masterdict, Str(peer))
         /\ \/ Has(DictGet(masterdict, Str(peer)), ConfigMaxKey(fam))
            \/ Has(DictGet(masterdict, Str(peer)), GroupNameKey(fam))

\* the configured maximum of the pair's record
RecordedLimit(peer, fam) ==
    IF script = "oldScript"
    THEN DictGet(IF fam = "inet" THEN configMax4 ELSE configMax6, peer)
    ELSE Int_(DictGet(masterdict, Str(peer))[ConfigMaxKey(fam)])

\* the record holds the values of the group
RecordOf(peer, fam, g) ==
    /\ RecordedLimit(peer, fam) = Int_(FamilyEntry(g.family, fam).maximum)
    /\ script = "checkMaxPrefixes" =>
           DictGet(masterdict, Str(peer))[GroupNameKey(fam)] = g.name

C13_OneRecordPerPeerAndFamily ==
    Extracted =>
        /\ DistinctKeys(configMax4) /\ DistinctKeys(configMax6) /\ DistinctKeys(masterdict)
        /\ \A p \in PeerASNs, f \in FamilyKeys :
             /\ Recorded(p, f) <=> GroupsOf(p, f) # {}
             /\ Recorded(p, f) => \E g \in GroupsOf(p, f) : RecordOf(p, f, g)

\* two groups with different limits share a peer and a family, and the peer
\* has no group of the other family
C13_Witness ==
    /\ Extracted
    /\ \E p \in PeerASNs, f \in FamilyKeys :
         /\ \E g, h \in GroupsOf(p, f) :
              FamilyEntry(g.family, f).maximum # FamilyEntry(h.family, f).maximum
         /\ Recorded(p, f)
         /\ GroupsOf(p, OtherKey(f)) = {}
         /\ ~Recorded(p, OtherKey(f))


(***************************************************************************)
(* C14: a group without a family block is skipped by ConfiguredPeers: it   *)
(* contributes no record and raises no error, whether or not it carries a  *)
(* peer identity, and the extraction of the other groups proceeds.         *)
(***************************************************************************)
\* every group that has a family block is well-formed
FamilyGroupsWellFormed ==
    \A g \in SeqToSet(bgpconfig) :
        Has(g, "family") =>
            /\ Has(g, "peer_as")
            /\ Has(FamilyEntry(g.family, FirstKey(g.family)), "maximum")

\* ConfiguredPeers raised
ExtractionRaised == pc = "raised" /\ queried = <<>>

C14_GroupsWithoutFamilySkipped ==
    FamilyGroupsWellFormed =>
        /\ ~ExtractionRaised
        /\ Extracted => \A p \in PeerASNs, f \in FamilyKeys :
                            Recorded(p, f) => GroupsOf(p, f) # {}


(***************************************************************************)
(* C15: for a group whose family block holds more than one family key,     *)
(* ConfiguredPeers makes a record for the first key only, none for the     *)
(* other family; and the generator emits statements naming the group only  *)
(* in the command list of its first family key.                            *)
(***************************************************************************)
TwoKeyGroups == {g \in SeqToSet(bgpconfig) : Has(g, "family") /\ Len(g.family) > 1}

\* another group configures the peer of g for the family as its first key
OtherGroupFor(g, fam) ==
    \E h \in SeqToSet(bgpconfig) :
        /\ h # g /\ Has(h, "family") /\ Has(h, "peer_as")
        /\ h.peer_as = g.peer_as /\ h.family[1].key = fam

Names(fam) == {CommandList(fam)[i].group : i \in 1..Len(CommandList(fam))}

C15_FirstFamilyKeyOnly ==
    \A g \in TwoKeyGroups :
        /\ Extracted =>
             /\ Recorded(Int_(g.peer_as), g.family[1].key)
             /\ Recorded(Int_(g.peer_as), g.family[2].key)
                    => OtherGroupFor(g, g.family[2].key)
        /\ pc = "done" =>
             /\ g.name \notin Names(g.family[2].key)
             /\ (\E r \in Results : /\ r.peer = Int_(g.peer_as)
                                    /\ r.family = g.family[1].key
                                    /\ r.disposition = "RECONFIGURE"
                                    /\ ~OtherGroupFor(g, g.family[1].key))
                    => g.name \in Names(g.family[1].key)

\* a group with both keys, inet6 first, got its statements in the IPv6 list
\* although its inet limit is below the recommended one as well
C15_Witness ==
    /\ pc = "done"
    /\ \E g \in TwoKeyGroups :
         /\ g.family[1].key = "inet6"
         /\ g.name \in Names("inet6")
         /\ Reported(Int_(g.peer_as), "inet") = 4000
         /\ ~Recorded(Int_(g.peer_as), "inet")


(***************************************************************************)
(* C16: for two reported counts a <= b with the same number of decimal     *)
(* digits, AddHeadroom(a) returns a recommended limit not above that of    *)
(* AddHeadroom(b), and both calls return the same multiplier.              *)
(***************************************************************************)
\* the counts a <= b compared with b: the one just below it (which, over
\* the contiguous inputs, chains to every lower one) and the inputs beyond
\* the contiguous range
ComparedWith(b) ==
    {a \in {b - 1} \cup (HeadroomInputs \ (0..MaxCount)) :
        a >= 0 /\ a <= b /\ Len(Str(a)) = Len(Str(b))}

C16_MonotonicPerDigitLength ==
    (pc = "returned" /\ count >= 0) =>
        \A a \in ComparedWith(count) :
            /\ AddHeadroom(a)[1] <= returned[1]
            /\ AddHeadroom(a)[2] = returned[2]

\* the largest four-digit count, against the one below it
C16_Witness ==
    /\ pc = "returned" /\ count = 9999
    /\ 9998 \in ComparedWith(count)
    /\ AddHeadroom(9998)[1] < returned[1]


(***************************************************************************)
(* C17: findMismatch produces a result for a (peer, family) pair if and    *)
(* only if the pair has a configured record and the peer a registry        *)
(* report: none for the family a peer is not configured for, although the  *)
(* registry returned a count for it, and exactly one for every configured  *)
(* pair, carrying the pair's configured limit and the family's reported    *)
(* count.                                                                  *)
(***************************************************************************)
HasReport(peer) ==
    \E i \in 1..Len(queried) :
        /\ queried[i] = Str(peer) /\ i <= Len(answers) /\ ~FatalAnswer(answers[i])

ResultsOf(peer, fam) == {r \in Results : r.peer = peer /\ r.family = fam}

\* the rows of a table of oldScript are of distinct peers
DistinctRows(table) == \A i, j \in 1..Len(table) : table[i].ASN = table[j].ASN => i = j

C17_ResultIffConfiguredAndReported ==
    Classified =>
        /\ DistinctRows(v4results) /\ DistinctRows(v6results)
        /\ \A p \in PeerASNs, f \in FamilyKeys :
             /\ ResultsOf(p, f) # {} <=> (Recorded(p, f) /\ HasReport(p))
             /\ Cardinality(ResultsOf(p, f)) <= 1
             /\ \A r \in ResultsOf(p, f) :
                  /\ r.configuredLimit = RecordedLimit(p, f)
                  /\ r.reportedCount = Reported(p, f)

\* a peer configured for inet only: a result for inet, none for inet6
\* although the registry reported 4000 IPv6 prefixes
C17_Witness ==
    /\ Classified
    /\ \E p \in PeerASNs :
         /\ Recorded(p, "inet") /\ ~Recorded(p, "inet6")
         /\ HasReport(p) /\ Reported(p, "inet6") = 4000
         /\ ResultsOf(p, "inet") # {} /\ ResultsOf(p, "inet6") = {}


(***************************************************************************)
(* C18: AddHeadroom rejects a negative reportedCount as an error           *)
(* (InvalidHeadroomInput): a call with a negative count does not return a  *)
(* recommended limit and multiplier.                                       *)
(***************************************************************************)
C18_NegativeCountRejected == pc = "returned" => count >= 0

=============================================================================
